---------------------------- MODULE Spec2Model ----------------------------
(***************************************************************************)
(* Career counselling engine: questionnaire validation, trait aggregation, *)
(* career-path ranking, recommendation / headline / reflection composition *)
(* and narrative rendering, as served by the POST /evaluate endpoint.      *)
(*                                                                         *)
(* Python floats are IEEE-754 binary64.  A float is represented by the     *)
(* natural number  value * 2^60, held as a little-endian sequence of       *)
(* 15-bit limbs (TLC integers are 32 bits wide).  Every float the engine   *)
(* computes from weights in tenths is either 0 or at least 2^-7, so it is  *)
(* a multiple of 2^-60 and the representation is exact.  Additions and     *)
(* multiplications round to 53 significant bits, ties to even.             *)
(***************************************************************************)
EXTENDS Integers, Sequences, FiniteSets, TLC

(***************************************************************************)
(* Natural numbers as limb sequences                                       *)
(***************************************************************************)
LimbBits == 15
MantissaBits == 53
ScaleLimbs == 4
Base == 2^LimbBits

Limb(a, i) == IF i <= Len(a) THEN a[i] ELSE 0

RECURSIVE BigNorm(_)
BigNorm(a) ==
    IF a = <<>> THEN <<>>
    ELSE IF a[Len(a)] = 0 THEN BigNorm(SubSeq(a, 1, Len(a) - 1))
    ELSE a

RECURSIVE AddFrom(_, _, _, _)
AddFrom(a, b, i, carry) ==
    IF i > Len(a) /\ i > Len(b)
    THEN (IF carry = 0 THEN <<>> ELSE <<carry>>)
    ELSE LET s == Limb(a, i) + Limb(b, i) + carry
         IN  <<s % Base>> \o AddFrom(a, b, i + 1, s \div Base)

BigAdd(a, b) == AddFrom(a, b, 1, 0)

RECURSIVE MulSmallFrom(_, _, _, _)
MulSmallFrom(a, k, i, carry) ==
    IF i > Len(a)
    THEN (IF carry = 0 THEN <<>> ELSE <<carry>>)
    ELSE LET s == a[i] * k + carry
         IN  <<s % Base>> \o MulSmallFrom(a, k, i + 1, s \div Base)

BigMulSmall(a, k) == IF k = 0 THEN <<>> ELSE MulSmallFrom(a, k, 1, 0)

ShiftLimb(a) == IF a = <<>> THEN <<>> ELSE <<0>> \o a

RECURSIVE MulFrom(_, _, _)
MulFrom(a, b, j) ==
    IF j > Len(b) THEN <<>>
    ELSE BigAdd(BigMulSmall(a, b[j]), ShiftLimb(MulFrom(a, b, j + 1)))

BigMul(a, b) == MulFrom(a, b, 1)

\* Long division by a small divisor, most significant limb first.
RECURSIVE DivSmallFrom(_, _, _, _)
DivSmallFrom(a, d, i, rem) ==
    IF i = 0 THEN <<>>
    ELSE LET cur == rem * Base + a[i]
         IN  DivSmallFrom(a, d, i - 1, cur % d) \o <<cur \div d>>

BigDivSmall(a, d) == BigNorm(DivSmallFrom(a, d, Len(a), 0))

\* -1, 0, 1 as a < b, a = b, a > b (both without leading zero limbs).
RECURSIVE CmpFrom(_, _, _)
CmpFrom(a, b, i) ==
    IF i = 0 THEN 0
    ELSE IF a[i] < b[i] THEN -1
    ELSE IF a[i] > b[i] THEN 1
    ELSE CmpFrom(a, b, i - 1)

BigCmp(a, b) ==
    IF Len(a) < Len(b) THEN -1
    ELSE IF Len(a) > Len(b) THEN 1
    ELSE CmpFrom(a, b, Len(a))

RECURSIVE SmallBitLen(_)
SmallBitLen(n) == IF n = 0 THEN 0 ELSE 1 + SmallBitLen(n \div 2)

BitLen(a) == IF a = <<>> THEN 0 ELSE (Len(a) - 1) * LimbBits + SmallBitLen(a[Len(a)])

Pow2(n) == [i \in 1..(n \div LimbBits + 1) |->
               IF i = n \div LimbBits + 1 THEN 2^(n % LimbBits) ELSE 0]

\* a mod 2^d
LowBits(a, d) ==
    LET full == d \div LimbBits
        part == d % LimbBits
    IN  BigNorm([i \in 1..(full + 1) |->
                   IF i <= full THEN Limb(a, i) ELSE Limb(a, i) % (2^part)])

\* a - (a mod 2^d)
ClearLowBits(a, d) ==
    LET full == d \div LimbBits
        part == d % LimbBits
    IN  [i \in 1..Len(a) |->
            IF i <= full THEN 0
            ELSE IF i = full + 1 THEN a[i] - (a[i] % (2^part))
            ELSE a[i]]

BitAt(a, d) == (Limb(a, d \div LimbBits + 1) \div (2^(d % LimbBits))) % 2

(***************************************************************************)
(* binary64 arithmetic: round to nearest, ties to even                     *)
(***************************************************************************)
RoundToDouble(a) ==
    LET d == BitLen(a) - MantissaBits
    IN  IF d <= 0 THEN a
        ELSE LET c == BigCmp(LowBits(a, d), Pow2(d - 1))
                 up == c > 0 \/ (c = 0 /\ BitAt(a, d) = 1)
             IN  IF up THEN BigAdd(ClearLowBits(a, d), Pow2(d))
                       ELSE BigNorm(ClearLowBits(a, d))

DropLimbs(a, n) == IF Len(a) <= n THEN <<>> ELSE SubSeq(a, n + 1, Len(a))

FZero == <<>>
FAdd(x, y) == RoundToDouble(BigAdd(x, y))
FMul(x, y) == DropLimbs(RoundToDouble(BigMul(x, y)), ScaleLimbs)
FLess(x, y) == BigCmp(x, y) < 0

\* The double a decimal literal "t/10" denotes (weights are written in tenths).
FloatOfTenths(t) ==
    DropLimbs(RoundToDouble(
        BigDivSmall([i \in 1..(ScaleLimbs + 2) |-> IF i = ScaleLimbs + 2 THEN t ELSE 0], 10)), 1)

\* format(x, ".1f"): the decimal with one fractional digit nearest to the exact
\* binary value, ties to even; the result is the number of tenths.
FormatTenths(x) ==
    LET m == BigMulSmall(x, 10)
        q == Limb(m, ScaleLimbs + 1) + Base * Limb(m, ScaleLimbs + 2)
        c == BigCmp(LowBits(m, ScaleLimbs * LimbBits), Pow2(ScaleLimbs * LimbBits - 1))
    IN  IF c > 0 \/ (c = 0 /\ q % 2 = 1) THEN q + 1 ELSE q


(***************************************************************************)
(* Text: a string is a non-empty sequence of lines, a line an indentation  *)
(* and a sequence of string tokens (token boundaries carry no meaning).    *)
(***************************************************************************)
Digit(d) == <<"0", "1", "2", "3", "4", "5", "6", "7", "8", "9">>[d + 1]

RECURSIVE IntTokens(_)
IntTokens(n) == IF n < 10 THEN <<Digit(n)>> ELSE IntTokens(n \div 10) \o <<Digit(n % 10)>>

\* f"{score:.1f}"
FormatFloat1(score) ==
    LET t == FormatTenths(score) IN IntTokens(t \div 10) \o <<".", Digit(t % 10)>>

\* sep.join(items), each item one token
RECURSIVE Join(_, _)
Join(items, sep) ==
    IF items = <<>> THEN <<>>
    ELSE IF Len(items) = 1 THEN <<items[1]>>
    ELSE <<items[1], sep>> \o Join(Tail(items), sep)

\* sep.join(items), each item a token sequence
RECURSIVE JoinTokens(_, _)
JoinTokens(items, sep) ==
    IF items = <<>> THEN <<>>
    ELSE IF Len(items) = 1 THEN items[1]
    ELSE items[1] \o <<sep>> \o JoinTokens(Tail(items), sep)

Line(indent, text) == [indent |-> indent, text |-> text]
BlankLine == Line(0, <<>>)
IsBlank(line) == line.text = <<>>

\* A value interpolated into a template line that holds nothing but `indent`
\* spaces: only the value's first line receives the template's indentation.
Interpolate(indent, lines) ==
    [i \in 1..Len(lines) |->
        IF i = 1 THEN Line(indent + lines[1].indent, lines[1].text) ELSE lines[i]]

\* f"{prefix}{value}{suffix}" for a value whose first line is not indented:
\* the prefix runs into the value's first line, the suffix follows its last.
Splice(prefix, value, suffix) ==
    [i \in 1..Len(value) |->
        Line(value[i].indent,
             (IF i = 1 THEN prefix ELSE <<>>) \o value[i].text
                 \o (IF i = Len(value) THEN suffix ELSE <<>>))]

\* textwrap.dedent: whitespace-only lines become empty, the others lose the
\* margin they have in common.
dedent(lines) ==
    LET solid == {i \in 1..Len(lines) : ~IsBlank(lines[i])}
        margin == IF solid = {} THEN 0
                  ELSE CHOOSE m \in {lines[i].indent : i \in solid} :
                           \A i \in solid : m <= lines[i].indent
    IN  [i \in 1..Len(lines) |->
            IF IsBlank(lines[i]) THEN BlankLine
            ELSE Line(lines[i].indent - margin, lines[i].text)]

\* str.strip on text whose lines carry no trailing blanks
strip(lines) ==
    LET solid == {i \in 1..Len(lines) : ~IsBlank(lines[i])}
    IN  IF solid = {} THEN <<BlankLine>>
        ELSE LET first == CHOOSE i \in solid : \A j \in solid : i <= j
                 last  == CHOOSE i \in solid : \A j \in solid : j <= i
             IN  <<Line(0, lines[first].text)>> \o SubSeq(lines, first + 1, last)

\* "\n\n".join(sections)
RECURSIVE JoinSections(_)
JoinSections(sections) ==
    IF sections = <<>> THEN <<BlankLine>>
    ELSE IF Len(sections) = 1 THEN sections[1]
    ELSE sections[1] \o <<BlankLine>> \o JoinSections(Tail(sections))

(***************************************************************************)
(* dict: insertion-ordered sequence of <<key, value>> pairs                *)
(***************************************************************************)
DictHas(d, k) == \E i \in 1..Len(d) : d[i][1] = k
DictGet(d, k, default) ==
    IF DictHas(d, k) THEN d[CHOOSE i \in 1..Len(d) : d[i][1] = k][2] ELSE default
DictSet(d, k, v) ==
    IF DictHas(d, k) THEN [i \in 1..Len(d) |-> IF d[i][1] = k THEN <<k, v>> ELSE d[i]]
    ELSE Append(d, <<k, v>>)

(***************************************************************************)
(* Catalogs                                                                *)
(***************************************************************************)
\* _build_questions(): weights are the source's decimal literals, in tenths,
\* in dict insertion order.  Prompts and labels are not read by the evaluation.
ReferenceQuestions ==
    <<
      [id |-> "strength", options |-> <<
          [id |-> "analytical", weight |-> <<<<"analytical", 10>>, <<"technical", 5>>>>],
          [id |-> "creative", weight |-> <<<<"creative", 10>>, <<"communication", 5>>>>],
          [id |-> "supportive", weight |-> <<<<"social", 10>>, <<"communication", 5>>>>],
          [id |-> "practical", weight |-> <<<<"practical", 10>>, <<"technical", 5>>>>]
      >>],
      [id |-> "values", options |-> <<
          [id |-> "impact", weight |-> <<<<"social", 8>>, <<"creative", 4>>>>],
          [id |-> "innovation", weight |-> <<<<"technical", 8>>, <<"analytical", 6>>>>],
          [id |-> "security", weight |-> <<<<"practical", 9>>>>],
          [id |-> "expression", weight |-> <<<<"creative", 8>>, <<"communication", 4>>>>]
      >>],
      [id |-> "environment", options |-> <<
          [id |-> "team", weight |-> <<<<"social", 9>>, <<"communication", 7>>>>],
          [id |-> "independent", weight |-> <<<<"analytical", 7>>, <<"technical", 6>>>>],
          [id |-> "dynamic", weight |-> <<<<"technical", 5>>, <<"practical", 6>>>>],
          [id |-> "studio", weight |-> <<<<"creative", 7>>, <<"practical", 6>>>>]
      >>],
      [id |-> "learning", options |-> <<
          [id |-> "courses", weight |-> <<<<"analytical", 6>>, <<"practical", 4>>>>],
          [id |-> "projects", weight |-> <<<<"creative", 5>>, <<"technical", 6>>>>],
          [id |-> "people", weight |-> <<<<"social", 7>>, <<"communication", 6>>>>],
          [id |-> "hands-on", weight |-> <<<<"practical", 7>>, <<"technical", 4>>>>]
      >>]
    >>

\* _build_career_library()
ReferenceCareerLibrary ==
    <<
      [title |-> "Data & AI Explorer",
       traits |-> <<<<"analytical", 8>>, <<"technical", 7>>>>,
       description |->
          "You enjoy uncovering patterns and using technology to make sense of complex problems. Roles like data analyst, machine learning engineer, or AI ethicist can let you blend curiosity with impact.",
       strengths_alignment |-> <<
              "You naturally spot trends and question the status quo.",
              "You enjoy independent deep work and thoughtful experimentation.",
              "You like transforming messy information into useful insights." >>,
       starter_projects |-> <<
              "Analyze open datasets (climate, education) and publish a short insight report.",
              "Build a simple machine learning model that solves a real-world student problem.",
              "Join a hackathon focused on ethical AI or social good." >>,
       learning_resources |-> <<
              "Intro to Data Science with Python (Coursera)",
              "Kaggle Learn: Intro to Machine Learning",
              "AI Ethics case studies from the Montreal AI Ethics Institute" >>],
      [title |-> "Digital Storyteller",
       traits |-> <<<<"creative", 9>>, <<"communication", 7>>>>,
       description |->
          "You bring ideas to life through words, visuals, or interactive media. Careers in content strategy, UX writing, or multimedia journalism help you build narratives that inspire action.",
       strengths_alignment |-> <<
              "You connect with audiences and translate complex topics into engaging stories.",
              "You experiment with formats--from podcasts to design mockups--to find the right voice.",
              "You notice the emotions behind people's experiences and reflect them back." >>,
       starter_projects |-> <<
              "Launch a storytelling newsletter exploring student journeys in various fields.",
              "Prototype a multimedia portfolio site highlighting causes you care about.",
              "Volunteer with a local nonprofit to amplify their mission through social media." >>,
       learning_resources |-> <<
              "Google UX Writing Fundamentals",
              "Storytelling for Influence (IDEO U)",
              "Build a Personal Brand on Social Media (LinkedIn Learning)" >>],
      [title |-> "Community Impact Navigator",
       traits |-> <<<<"social", 8>>, <<"communication", 6>>>>,
       description |->
          "You thrive when empowering others and building supportive spaces. Roles in community management, education, or talent development let you guide people toward growth.",
       strengths_alignment |-> <<
              "You facilitate discussions that help peers discover their strengths.",
              "You design inclusive experiences where everyone feels seen.",
              "You excel at translating feedback into programs that drive impact." >>,
       starter_projects |-> <<
              "Start a peer mentoring circle focused on goal setting and accountability.",
              "Design a workshop to help classmates explore future career paths.",
              "Coordinate a service project that addresses a local need." >>,
       learning_resources |-> <<
              "Coaching Skills for Leaders (edX)",
              "Community Management Fundamentals (CMX)",
              "Designing Learning Experiences (IDEO U)" >>],
      [title |-> "Product Innovator",
       traits |-> <<<<"technical", 7>>, <<"practical", 6>>>>,
       description |->
          "You enjoy turning ideas into tangible solutions and iterating quickly. Product management, innovation strategy, or entrepreneurship paths help you launch meaningful products.",
       strengths_alignment |-> <<
              "You balance big-picture vision with pragmatic experimentation.",
              "You love mapping user needs and crafting solutions that evolve with feedback.",
              "You are energized by dynamic environments and collaborative building." >>,
       starter_projects |-> <<
              "Design a lean canvas for a product addressing a student life challenge.",
              "Join a product sprint or startup weekend to practice rapid prototyping.",
              "Build a low-code MVP and test it with potential users." >>,
       learning_resources |-> <<
              "Product Strategy by Reforge",
              "Lean Startup principles (Eric Ries)",
              "Figma Community for prototyping inspiration" >>],
      [title |-> "Sustainable Builder",
       traits |-> <<<<"practical", 8>>, <<"creative", 5>>>>,
       description |->
          "You like working with your hands and seeing real-world change. Careers in sustainable engineering, urban planning, or environmental design combine tangible impact with creativity.",
       strengths_alignment |-> <<
              "You think in systems and care about long-term impact on people and planet.",
              "You enjoy learning by doing and iterating on physical or spatial prototypes.",
              "You balance functionality with aesthetics when solving problems." >>,
       starter_projects |-> <<
              "Prototype a sustainable product or service for your campus.",
              "Volunteer with an urban garden or green building initiative.",
              "Document how local infrastructure could become more climate resilient." >>,
       learning_resources |-> <<
              "Introduction to Sustainable Design (Coursera)",
              "Open Source Ecology projects",
              "Sustainable Cities MOOC (edX)" >>]
    >>

\* A questionnaire handed to CareerCounsellor(questionnaire) by its creator:
\* two questions, each offering an option that carries no weights.
InjectedQuestions ==
    <<
      [id |-> "strength", options |-> <<
          [id |-> "analytical", weight |-> <<<<"analytical", 10>>, <<"technical", 5>>>>],
          [id |-> "unsure", weight |-> <<>>]
      >>],
      [id |-> "values", options |-> <<
          [id |-> "innovation", weight |-> <<<<"technical", 8>>, <<"analytical", 6>>>>],
          [id |-> "undecided", weight |-> <<>>]
      >>]
    >>

Questionnaires == {ReferenceQuestions, InjectedQuestions}

(***************************************************************************)
(* Errors                                                                  *)
(***************************************************************************)
NoError == [type |-> "none", raised_by |-> "none", text |-> <<>>]
ValueError(raised_by, text) == [type |-> "ValueError", raised_by |-> raised_by, text |-> text]

(***************************************************************************)
(* questionnaire.py                                                        *)
(***************************************************************************)
question_ids(qs) == [i \in 1..Len(qs) |-> qs[i].id]

\* [qid for qid in self.question_ids() if qid not in responses]
MissingFirstOnly(qs, responses) ==
    LET all == SelectSeq(question_ids(qs), LAMBDA qid : qid \notin DOMAIN responses)
    IN  IF all = <<>> THEN <<>> ELSE <<all[1]>>
MissingResponses(qs, responses) ==
    SelectSeq(question_ids(qs), LAMBDA qid : qid \notin DOMAIN responses)

MissingError(missing) ==
    ValueError("Questionnaire.validate", <<"Missing responses for: ">> \o Join(missing, ", "))

\* {option.id for option in question.options}
OptionIdsButLast(question) ==
    {question.options[i].id : i \in 1..(Len(question.options) - 1)}
OptionIds(question) == {question.options[i].id : i \in 1..Len(question.options)}

\* responses[question.id] not in {option.id for option in question.options}
AcceptsAnyCatalogOption(qs, question, responses) ==
    responses[question.id] \notin UNION {OptionIds(qs[i]) : i \in 1..Len(qs)}
IsInvalidOption(qs, question, responses) == responses[question.id] \notin OptionIds(question)

InvalidOptionError(question, responses) ==
    ValueError("Questionnaire.validate",
               <<"Invalid option '", responses[question.id], "' for question '", question.id, "'.">>)

\* The loop of validate over the questions from position i on: the first
\* failing question raises.
RECURSIVE CheckOptionsFrom(_, _, _)
CheckOptionsFrom(qs, responses, i) ==
    IF i > Len(qs) THEN NoError
    ELSE IF IsInvalidOption(qs, qs[i], responses) THEN InvalidOptionError(qs[i], responses)
    ELSE CheckOptionsFrom(qs, responses, i + 1)

(***************************************************************************)
(* engine.py                                                               *)
(***************************************************************************)
\* _option_by_id: position of the first option with that id, 0 when the loop
\* falls through to the raise.
OptionPositionButLast(options, option_id) ==
    IF \E i \in 1..(Len(options) - 1) : options[i].id = option_id
    THEN CHOOSE i \in 1..(Len(options) - 1) :
             /\ options[i].id = option_id
             /\ \A j \in 1..(i - 1) : options[j].id # option_id
    ELSE 0
OptionPosition(options, option_id) ==
    IF \E i \in 1..Len(options) : options[i].id = option_id
    THEN CHOOSE i \in 1..Len(options) :
             /\ options[i].id = option_id
             /\ \A j \in 1..(i - 1) : options[j].id # option_id
    ELSE 0

NoOptionError(option_id) == ValueError("_option_by_id", <<"No option with id '", option_id, "'">>)

\* scores[trait] = scores.get(trait, 0.0) + weight
AccumulateOverwrite(scores, trait, weight) == DictSet(scores, trait, FloatOfTenths(weight))
Accumulate(scores, trait, weight) ==
    DictSet(scores, trait, FAdd(DictGet(scores, trait, FZero), FloatOfTenths(weight)))

\* for trait, weight in option.weight.items()
RECURSIVE AddWeights(_, _, _)
AddWeights(scores, weight, j) ==
    IF j > Len(weight) THEN scores
    ELSE AddWeights(Accumulate(scores, weight[j][1], weight[j][2]), weight, j + 1)

\* The loop of _aggregate_traits over the questions `visit` from position i on.
RECURSIVE AggregateFrom(_, _, _, _)
AggregateFrom(visit, responses, i, scores) ==
    IF i > Len(visit) THEN [error |-> NoError, scores |-> scores]
    ELSE LET pos == OptionPosition(visit[i].options, responses[visit[i].id])
         IN  IF pos = 0
             THEN [error |-> NoOptionError(responses[visit[i].id]), scores |-> scores]
             ELSE AggregateFrom(visit, responses, i + 1,
                                AddWeights(scores, visit[i].options[pos].weight, 1))

\* CareerCounsellor._aggregate_traits
aggregate_traits(qs, responses) == AggregateFrom(qs, responses, 1, <<>>)

\* CareerPath.match_score: sum(...) adds the products left to right from 0
RECURSIVE MatchScoreFrom(_, _, _, _)
MatchScoreFrom(path_traits, trait_scores, j, total) ==
    IF j > Len(path_traits) THEN total
    ELSE MatchScoreFrom(path_traits, trait_scores, j + 1,
            FAdd(total, FMul(DictGet(trait_scores, path_traits[j][1], FZero),
                             FloatOfTenths(path_traits[j][2]))))

match_score(path, trait_scores) == MatchScoreFrom(path.traits, trait_scores, 1, FZero)

\* sorted(items, key=..., reverse=True): stable, the keys computed once.
\* Insertion behind every element whose key is not smaller.
RECURSIVE InsertDescending(_, _, _)
InsertDescending(acc, e, i) ==
    IF i > Len(acc) THEN Append(acc, e)
    ELSE IF FLess(acc[i].key, e.key)
         THEN SubSeq(acc, 1, i - 1) \o <<e>> \o SubSeq(acc, i, Len(acc))
         ELSE InsertDescending(acc, e, i + 1)

RECURSIVE SortFrom(_, _, _)
SortFrom(keyed, k, acc) ==
    IF k > Len(keyed) THEN acc
    ELSE SortFrom(keyed, k + 1, InsertDescending(acc, keyed[k], 1))

\* ascending sort followed by a reversal: equal keys come out in reverse order
RECURSIVE InsertAscending(_, _, _)
InsertAscending(acc, e, i) ==
    IF i > Len(acc) THEN Append(acc, e)
    ELSE IF FLess(e.key, acc[i].key)
         THEN SubSeq(acc, 1, i - 1) \o <<e>> \o SubSeq(acc, i, Len(acc))
         ELSE InsertAscending(acc, e, i + 1)

RECURSIVE SortAscendingFrom(_, _, _)
SortAscendingFrom(keyed, k, acc) ==
    IF k > Len(keyed) THEN acc
    ELSE SortAscendingFrom(keyed, k + 1, InsertAscending(acc, keyed[k], 1))

SortedAscendingReversed(keyed) ==
    LET asc == SortAscendingFrom(keyed, 1, <<>>)
    IN  [i \in 1..Len(asc) |-> asc[Len(asc) + 1 - i].item]
sorted_reverse(keyed) ==
    LET s == SortFrom(keyed, 1, <<>>) IN [i \in 1..Len(s) |-> s[i].item]

\* CareerCounsellor._rank_paths
rank_paths(library, traits) ==
    sorted_reverse([i \in 1..Len(library) |->
                      [key |-> match_score(library[i], traits), item |-> library[i]]])

\* What sorted() leaves in self._career_library: the list it was given.
LibrarySortedInPlace(library, ranked) == ranked
LibraryAfterRanking(library, ranked) == library

\* CareerCounsellor._create_recommendation
create_recommendation(path) ==
    [title |-> path.title,
     summary |-> path.description,
     strengths_alignment |-> path.strengths_alignment,
     starter_projects |-> path.starter_projects,
     learning_resources |-> path.learning_resources]

\* ranked_paths[:3]
TopTwo(ranked_paths) == SubSeq(ranked_paths, 1, IF Len(ranked_paths) < 2 THEN Len(ranked_paths) ELSE 2)
TopThree(ranked_paths) == SubSeq(ranked_paths, 1, IF Len(ranked_paths) < 3 THEN Len(ranked_paths) ELSE 3)

\* [self._create_recommendation(path) for path in ranked_paths[:3]]
create_recommendations(ranked_paths) ==
    LET top == TopThree(ranked_paths) IN [i \in 1..Len(top) |-> create_recommendation(top[i])]

\* max(traits.items(), key=lambda item: item[1]) on a non-empty dict: the
\* first item no later item exceeds.
RECURSIVE MaxItemFrom(_, _, _)
MaxItemLast(items, i, best) ==
    IF i > Len(items) THEN best
    ELSE MaxItemFrom(items, i + 1, IF FLess(items[i][2], best[2]) THEN best ELSE items[i])
MaxItemFrom(items, i, best) ==
    IF i > Len(items) THEN best
    ELSE MaxItemFrom(items, i + 1, IF FLess(best[2], items[i][2]) THEN items[i] ELSE best)

EmptyMaxError == ValueError("max", <<"max() arg is an empty sequence">>)

\* CareerCounsellor._compose_headline
compose_headline(learner_name, traits, recommendations) ==
    IF traits = <<>> THEN [error |-> EmptyMaxError, headline |-> <<>>]
    ELSE LET top == MaxItemFrom(traits, 2, traits[1])
             lead_recommendation ==
                 IF recommendations # <<>> THEN recommendations[1].title ELSE "new paths"
         IN  [error |-> NoError,
              headline |-> Splice(<<>>, learner_name,
                                  <<", your top trait is ", top[1], " (">>
                                  \o FormatFloat1(top[2])
                                  \o <<") and you're well suited for ", lead_recommendation, ".">>)]

\* _reflection_prompts
FixedPrompts ==
    << <<"What parts of the recommended roles excite you the most and why?">>,
       <<"How do these paths align with the impact you want to have on others?">>,
       <<"What is one experiment you could run this month to learn more?">> >>

PromptsWithoutLead(recommendations) == FixedPrompts
reflection_prompts(recommendations) ==
    IF recommendations # <<>>
    THEN Append(FixedPrompts,
                <<"Who could you reach out to for an informational chat about ",
                  recommendations[1].title, "?">>)
    ELSE FixedPrompts

\* TraitProfile.top_traits(limit=3)
top_traits(scores) ==
    LET s == sorted_reverse([i \in 1..Len(scores) |-> [key |-> scores[i][2], item |-> scores[i]]])
    IN  SubSeq(s, 1, IF Len(s) < 3 THEN Len(s) ELSE 3)


(***************************************************************************)
(* genai.py                                                                *)
(***************************************************************************)
TemplateIndent == 8
BulletIndent == 4

\* "\n".join(f"    * {item}" for item in items); the bullet character of the
\* source is written "* " here.
Bullets(items) ==
    IF items = <<>> THEN <<BlankLine>>
    ELSE [i \in 1..Len(items) |-> Line(BulletIndent, <<"* ", items[i]>>)]

PositionMinusOne(index) == index - 1
\* index + 1 in _describe_recommendation(index + 1, recommendation)
PositionOf(index) == index

\* _describe_recommendation; `position` counts from 1
describe_recommendation(position, recommendation) ==
    strip(dedent(
        <<BlankLine,
          Line(TemplateIndent, <<"Option ">> \o IntTokens(position) \o <<": ", recommendation.title>>),
          Line(TemplateIndent, <<"Why it fits:">>)>>
        \o Interpolate(TemplateIndent, Bullets(recommendation.strengths_alignment))
        \o <<Line(TemplateIndent, <<"Try this next:">>)>>
        \o Interpolate(TemplateIndent, Bullets(recommendation.starter_projects))
        \o <<Line(TemplateIndent, <<"Keep exploring with:">>)>>
        \o Interpolate(TemplateIndent, Bullets(recommendation.learning_resources))
        \o <<Line(TemplateIndent, <<>>)>>))

\* compose_full_report
compose_full_report(evaluation) ==
    LET intro == strip(dedent(
            <<BlankLine>>
            \o Interpolate(TemplateIndent, Splice(<<"Hey ">>, evaluation.learner_name, <<",">>))
            \o <<Line(TemplateIndent,
                      <<"Here's a quick look at how your strengths and motivations can shape your next steps.">>)>>
            \o Interpolate(TemplateIndent, evaluation.headline)
            \o <<Line(TemplateIndent, <<>>)>>))
        top == top_traits(evaluation.traits)
        trait_lines ==
            << <<Line(0, <<"Top strengths: ">>
                         \o JoinTokens([i \in 1..Len(top) |->
                                          <<top[i][1], " (">> \o FormatFloat1(top[i][2]) \o <<")">>],
                                       ", "))>> >>
        recommendation_sections ==
            [i \in 1..Len(evaluation.recommendations) |->
                describe_recommendation(PositionOf(i), evaluation.recommendations[i])]
        reflection_section ==
            <<Line(0, <<"Reflection prompts:">>)>>
            \o (IF evaluation.reflection_questions = <<>> THEN <<Line(0, <<"- ">>)>>
                ELSE [i \in 1..Len(evaluation.reflection_questions) |->
                        Line(0, <<"- ">> \o evaluation.reflection_questions[i])])
    IN  JoinSections(<<intro>> \o trait_lines \o recommendation_sections \o <<reflection_section>>)

(***************************************************************************)
(* app.py                                                                  *)
(***************************************************************************)
NoResponse ==
    [status |-> 0, detail |-> <<>>, headline |-> <<>>, trait_scores |-> <<>>,
     recommendations |-> <<>>, reflection_questions |-> <<>>, narrative_report |-> <<>>]

\* raise HTTPException(status_code=400, detail=str(exc))
ClientError(error) == [NoResponse EXCEPT !.status = 400, !.detail = error.text]

\* EvaluationResponse(...)
EvaluationResponse(evaluation) ==
    [status |-> 200, detail |-> <<>>,
     headline |-> evaluation.headline,
     trait_scores |-> evaluation.traits,
     recommendations |-> evaluation.recommendations,
     reflection_questions |-> evaluation.reflection_questions,
     narrative_report |-> compose_full_report(evaluation)]

(***************************************************************************)
(* State                                                                   *)
(***************************************************************************)
VARIABLES
    questions,        \* questionnaire._questions, shared by all requests
    career_library,   \* counsellor._career_library, shared by all requests
    request,          \* per worker: the EvaluationRequest being served
    frame,            \* per worker: position in evaluate and its locals
    response          \* per worker: what the endpoint answered

vars == <<questions, career_library, request, frame, response>>

\* Bounds of the exploration
NumWorkers == 2
NumNames == 2

\* Learner names, as text: the second one runs over two lines, the second
\* line indented by two blanks.
Names ==
    SubSeq(<< <<Line(0, <<"Asha">>)>>,
              <<Line(0, <<"Asha">>), Line(2, <<"K">>)>>,
              <<Line(0, <<"Ravi">>)>>,
              <<Line(0, <<"Mei">>)>> >>, 1, NumNames)

NoRequest == [learner_name |-> <<BlankLine>>, responses |-> <<>>]

IdleFrame ==
    [pc |-> "idle", learner_name |-> <<BlankLine>>, responses |-> <<>>, traits |-> <<>>,
     ranked_paths |-> <<>>, recommendations |-> <<>>, headline |-> <<>>,
     reflection_questions |-> <<>>, error |-> NoError]

Workers == DOMAIN frame

\* The answers tried for question i: its own option ids, an id no question
\* has, and an id that belongs to the next question.
CandidateAnswers(qs, i) ==
    {qs[i].options[k].id : k \in 1..Len(qs[i].options)}
        \cup {"nope", qs[(i % Len(qs)) + 1].options[1].id}

\* Every mapping from a subset of the question ids to candidate answers, with
\* and without a key that is no question id.
RECURSIVE MappingsFrom(_, _)
MappingsFrom(qs, i) ==
    IF i > Len(qs) THEN {<<>>, ("hobby" :> "chess")}
    ELSE LET rest == MappingsFrom(qs, i + 1)
         IN  rest \cup {(qs[i].id :> a) @@ m : a \in CandidateAnswers(qs, i), m \in rest}

ResponseMappings(qs) == MappingsFrom(qs, 1)

\* A handful of mappings for the workers that run side by side: complete and
\* valid ones (the first two make the same choice wherever they can), one
\* with a gap and one with an unknown option.
SampleMappings(qs) ==
    LET ids == {qs[i].id : i \in 1..Len(qs)}
        pick(k) == [qid \in ids |->
                      LET q == qs[CHOOSE i \in 1..Len(qs) : qs[i].id = qid]
                      IN  q.options[((k - 1) % Len(q.options)) + 1].id]
    IN  {pick(1), pick(2),
         [qid \in ids \ {qs[1].id} |-> pick(1)[qid]],
         [pick(1) EXCEPT ![qs[1].id] = "nope"]}

Init ==
    /\ questions \in Questionnaires
    /\ career_library = ReferenceCareerLibrary
    /\ request = [w \in 1..1 |-> NoRequest]
    /\ frame = [w \in 1..1 |-> IdleFrame]
    /\ response = [w \in 1..1 |-> NoResponse]

InitParallel ==
    /\ questions \in Questionnaires
    /\ career_library = ReferenceCareerLibrary
    /\ request = [w \in 1..NumWorkers |-> NoRequest]
    /\ frame = [w \in 1..NumWorkers |-> IdleFrame]
    /\ response = [w \in 1..NumWorkers |-> NoResponse]

\* Direct calls of the composer (_compose_headline, _reflection_prompts) and of
\* the renderer: a profile aggregated from a sample mapping and the first n
\* recommendations of its ranking, n = 0..3.
InitComposer ==
    /\ questions \in Questionnaires
    /\ career_library = ReferenceCareerLibrary
    /\ request = [w \in 1..1 |-> NoRequest]
    /\ response = [w \in 1..1 |-> NoResponse]
    /\ \E responses \in {r \in SampleMappings(questions) :
                            /\ MissingResponses(questions, r) = <<>>
                            /\ CheckOptionsFrom(questions, r, 1) = NoError},
          n \in 0..3 :
          \E traits \in {aggregate_traits(questions, responses).scores} :
          \E recommendations \in
                 {create_recommendations(rank_paths(career_library, traits))} :
              frame = [w \in 1..1 |->
                         [IdleFrame EXCEPT !.pc = "headline",
                                           !.learner_name = Names[1],
                                           !.traits = traits,
                                           !.recommendations = SubSeq(recommendations, 1, n)]]

(***************************************************************************)
(* Actions: one worker's steps through app.evaluate and engine.evaluate    *)
(***************************************************************************)
Raise(w, error) == frame' = [frame EXCEPT ![w].pc = "raised", ![w].error = error]

\* POST /evaluate arrives: counsellor.evaluate(learner_name=..., responses=...)
Receive(w, name, responses) ==
    /\ frame[w].pc = "idle"
    /\ request' = [request EXCEPT ![w] = [learner_name |-> name, responses |-> responses]]
    /\ frame' = [frame EXCEPT ![w] = [IdleFrame EXCEPT !.pc = "validate_missing",
                                                       !.learner_name = name,
                                                       !.responses = responses]]
    /\ response' = [response EXCEPT ![w] = NoResponse]
    /\ UNCHANGED <<questions, career_library>>

Post(w) ==
    /\ frame[w].pc = "idle"
    /\ \E i \in 1..Len(Names), responses \in ResponseMappings(questions) :
           Receive(w, Names[i], responses)

PostSample(w) ==
    /\ frame[w].pc = "idle"
    /\ \E responses \in SampleMappings(questions) : Receive(w, Names[1], responses)

\* validate: the missing-responses check
ValidateMissing(w) ==
    /\ frame[w].pc = "validate_missing"
    /\ LET missing == MissingResponses(questions, frame[w].responses)
       IN  IF missing # <<>> THEN Raise(w, MissingError(missing))
           ELSE frame' = [frame EXCEPT ![w].pc = "validate_options"]
    /\ UNCHANGED <<questions, career_library, request, response>>

\* validate: the option check of every question
ValidateOptions(w) ==
    /\ frame[w].pc = "validate_options"
    /\ LET error == CheckOptionsFrom(questions, frame[w].responses, 1)
       IN  IF error # NoError THEN Raise(w, error)
           ELSE frame' = [frame EXCEPT ![w].pc = "aggregate"]
    /\ UNCHANGED <<questions, career_library, request, response>>

AggregateTraits(w) ==
    /\ frame[w].pc = "aggregate"
    /\ LET result == aggregate_traits(questions, frame[w].responses)
       IN  IF result.error # NoError THEN Raise(w, result.error)
           ELSE frame' = [frame EXCEPT ![w].pc = "rank", ![w].traits = result.scores]
    /\ UNCHANGED <<questions, career_library, request, response>>

RankPaths(w) ==
    /\ frame[w].pc = "rank"
    /\ LET ranked == rank_paths(career_library, frame[w].traits)
       IN  /\ frame' = [frame EXCEPT ![w].pc = "recommend", ![w].ranked_paths = ranked]
           /\ career_library' = LibraryAfterRanking(career_library, ranked)
    /\ UNCHANGED <<questions, request, response>>

CreateRecommendations(w) ==
    /\ frame[w].pc = "recommend"
    /\ frame' = [frame EXCEPT ![w].pc = "headline",
                              ![w].recommendations = create_recommendations(frame[w].ranked_paths)]
    /\ UNCHANGED <<questions, career_library, request, response>>

ComposeHeadline(w) ==
    /\ frame[w].pc = "headline"
    /\ LET result == compose_headline(frame[w].learner_name, frame[w].traits,
                                      frame[w].recommendations)
       IN  IF result.error # NoError THEN Raise(w, result.error)
           ELSE frame' = [frame EXCEPT ![w].pc = "reflect", ![w].headline = result.headline]
    /\ UNCHANGED <<questions, career_library, request, response>>

ReflectionPrompts(w) ==
    /\ frame[w].pc = "reflect"
    /\ frame' = [frame EXCEPT ![w].pc = "respond",
                              ![w].reflection_questions =
                                  reflection_prompts(frame[w].recommendations)]
    /\ UNCHANGED <<questions, career_library, request, response>>

\* The Evaluation that engine.evaluate returns
EvaluationOf(f) ==
    [learner_name |-> f.learner_name, headline |-> f.headline, traits |-> f.traits,
     recommendations |-> f.recommendations, reflection_questions |-> f.reflection_questions]

\* app.evaluate builds the EvaluationResponse, narrative report included
Respond(w) ==
    /\ frame[w].pc = "respond"
    /\ response' = [response EXCEPT ![w] = EvaluationResponse(EvaluationOf(frame[w]))]
    /\ frame' = [frame EXCEPT ![w].pc = "responded"]
    /\ UNCHANGED <<questions, career_library, request>>

\* except ValueError as exc: raise HTTPException(status_code=400, ...)
HandleValueError(w) ==
    /\ frame[w].pc = "raised"
    /\ response' = [response EXCEPT ![w] = ClientError(frame[w].error)]
    /\ frame' = [frame EXCEPT ![w].pc = "responded"]
    /\ UNCHANGED <<questions, career_library, request>>

\* The worker is free for the next request.
Release(w) ==
    /\ frame[w].pc = "responded"
    /\ frame' = [frame EXCEPT ![w] = IdleFrame]
    /\ request' = [request EXCEPT ![w] = NoRequest]
    /\ response' = [response EXCEPT ![w] = NoResponse]
    /\ UNCHANGED <<questions, career_library>>

Next ==
    \E w \in Workers :
        \/ Post(w)
        \/ ValidateMissing(w)
        \/ ValidateOptions(w)
        \/ AggregateTraits(w)
        \/ RankPaths(w)
        \/ CreateRecommendations(w)
        \/ ComposeHeadline(w)
        \/ ReflectionPrompts(w)
        \/ Respond(w)
        \/ HandleValueError(w)
        \/ Release(w)

NextParallel ==
    \E w \in Workers :
        \/ PostSample(w)
        \/ ValidateMissing(w)
        \/ ValidateOptions(w)
        \/ AggregateTraits(w)
        \/ RankPaths(w)
        \/ CreateRecommendations(w)
        \/ ComposeHeadline(w)
        \/ ReflectionPrompts(w)
        \/ Respond(w)
        \/ HandleValueError(w)
        \/ Release(w)

\* One request at a time, every response mapping.
Spec == Init /\ [][Next]_vars

\* The composer and the renderer called directly, then requests one at a time.
SpecComposer == InitComposer /\ [][Next]_vars

\* Several requests side by side over the shared catalogs.
SpecParallel == InitParallel /\ [][NextParallel]_vars

(***************************************************************************)
(* Properties                                                              *)
(***************************************************************************)
QuestionIdSet(qs) == {qs[i].id : i \in 1..Len(qs)}
CatalogPosition(qs, qid) == CHOOSE i \in 1..Len(qs) : qs[i].id = qid
Unanswered(qs, responses) == {qid \in QuestionIdSet(qs) : qid \notin DOMAIN responses}
OffersOption(question, option_id) == \E i \in 1..Len(question.options) : question.options[i].id = option_id
BadlyAnswered(qs, responses) ==
    {qid \in QuestionIdSet(qs) \cap DOMAIN responses :
        ~OffersOption(qs[CatalogPosition(qs, qid)], responses[qid])}
Answered200(w) == frame[w].pc = "responded" /\ response[w].status = 200

\* The ids a "Missing responses for: a, b, c" message lists, in order.
ListedIds(text) == [k \in 1..(Len(text) \div 2) |-> text[2 * k]]

\* C1: a response mapping that lacks one or more catalog question ids never
\* gets past the missing-responses check; validate raises a ValueError whose
\* message lists exactly the missing ids, each once, in catalog order,
\* separated by ", ", whatever option ids the answered questions carry.
C1_MissingListsAll ==
    \A w \in Workers :
        (frame[w].pc # "idle" /\ Unanswered(questions, request[w].responses) # {}) =>
            /\ frame[w].pc \in {"validate_missing", "raised", "responded"}
            /\ frame[w].pc # "validate_missing" =>
                 LET text == frame[w].error.text
                     listed == ListedIds(text)
                 IN  /\ frame[w].error.type = "ValueError"
                     /\ frame[w].error.raised_by = "Questionnaire.validate"
                     /\ Len(text) % 2 = 0
                     /\ text[1] = "Missing responses for: "
                     /\ \A k \in 2..Len(listed) : text[2 * k - 1] = ", "
                     /\ {listed[k] : k \in 1..Len(listed)}
                            = Unanswered(questions, request[w].responses)
                     /\ \A k \in 2..Len(listed) :
                            CatalogPosition(questions, listed[k - 1])
                                < CatalogPosition(questions, listed[k])
                     /\ frame[w].pc = "responded" =>
                            response[w].status = 400 /\ response[w].detail = text

\* C1 witness: answered with the missing-responses message for two missing
\* questions although an answered question carries an unknown option id.
C1_Witness ==
    \E w \in Workers :
        /\ frame[w].pc = "responded"
        /\ response[w].status = 400
        /\ response[w].detail[1] = "Missing responses for: "
        /\ Cardinality(Unanswered(questions, request[w].responses)) = 2
        /\ BadlyAnswered(questions, request[w].responses) # {}

\* The first question, in catalog order, whose answer is none of its options.
FirstBadlyAnswered(qs, responses) ==
    CHOOSE qid \in BadlyAnswered(qs, responses) :
        \A other \in BadlyAnswered(qs, responses) :
            CatalogPosition(qs, qid) <= CatalogPosition(qs, other)

\* C2: a response mapping that answers every catalog question, at least one
\* of them with an id outside that question's own options, never reaches the
\* aggregation; validate raises a ValueError naming the first such question
\* in catalog order and the id supplied for it, also when that id is an
\* option of another question.
C2_InvalidNamesFirst ==
    \A w \in Workers :
        (/\ frame[w].pc # "idle"
         /\ Unanswered(questions, request[w].responses) = {}
         /\ BadlyAnswered(questions, request[w].responses) # {}) =>
            /\ frame[w].pc \in {"validate_missing", "validate_options", "raised", "responded"}
            /\ frame[w].pc \in {"raised", "responded"} =>
                 LET qid == FirstBadlyAnswered(questions, request[w].responses)
                 IN  /\ frame[w].error.type = "ValueError"
                     /\ frame[w].error.raised_by = "Questionnaire.validate"
                     /\ frame[w].error.text =
                            <<"Invalid option '", request[w].responses[qid],
                              "' for question '", qid, "'.">>
                     /\ frame[w].pc = "responded" =>
                            /\ response[w].status = 400
                            /\ response[w].detail = frame[w].error.text

\* C2 witness: two questions are badly answered, the first of them with an
\* option id of another question, and the request was refused.
C2_Witness ==
    \E w \in Workers :
        /\ frame[w].pc = "responded"
        /\ response[w].status = 400
        /\ Unanswered(questions, request[w].responses) = {}
        /\ Cardinality(BadlyAnswered(questions, request[w].responses)) = 2
        /\ LET qid == FirstBadlyAnswered(questions, request[w].responses)
           IN  /\ \E i \in 1..Len(questions) : OffersOption(questions[i], request[w].responses[qid])
               /\ response[w].detail[2] = request[w].responses[qid]

IsValidMapping(qs, responses) ==
    Unanswered(qs, responses) = {} /\ BadlyAnswered(qs, responses) = {}

\* C3: while validate runs on a mapping that gives every catalog question one
\* of its own options it does not raise, and it changes neither the mapping
\* (the caller's and its own are the same dict) nor the questionnaire.
C3_ValidPasses ==
    [][\A w \in Workers :
          (/\ frame[w].pc \in {"validate_missing", "validate_options"}
           /\ IsValidMapping(questions, frame[w].responses)) =>
              /\ frame'[w].pc \in {"validate_missing", "validate_options", "aggregate"}
              /\ frame'[w].error = NoError
              /\ frame'[w].responses = frame[w].responses
              /\ request'[w].responses = frame[w].responses
              /\ questions' = questions]_vars

\* C3 witness: validate has returned for a valid mapping.
C3_Witness ==
    \E w \in Workers :
        /\ frame[w].pc = "aggregate"
        /\ IsValidMapping(questions, frame[w].responses)
        /\ frame[w].responses = request[w].responses
        /\ questions = ReferenceQuestions


SelectedOption(question, responses) ==
    question.options[CHOOSE i \in 1..Len(question.options) :
                         question.options[i].id = responses[question.id]]

TraitValue(scores, trait) ==
    IF \E i \in 1..Len(scores) : scores[i][1] = trait
    THEN scores[CHOOSE i \in 1..Len(scores) : scores[i][1] = trait][2]
    ELSE FZero

\* Sum, left to right from 0.0, of score(trait) * weight over the path's entries.
PathScore(path, scores) ==
    LET partial[j \in 0..Len(path.traits)] ==
            IF j = 0 THEN FZero
            ELSE FAdd(partial[j - 1],
                      FMul(TraitValue(scores, path.traits[j][1]),
                           FloatOfTenths(path.traits[j][2])))
    IN  partial[Len(path.traits)]

LibraryPosition(library, path) == CHOOSE k \in 1..Len(library) : library[k] = path

\* C4: the ranking holds every path of the career library exactly once, no
\* path is ranked before one of greater match score (the float sum of learner
\* score, or 0.0, times weight over the path's own entries), and paths of
\* equal match score keep their library order.
C4_RankingStableDescending ==
    \A w \in Workers :
        frame[w].pc = "recommend" =>
            LET ranked == frame[w].ranked_paths
                score(i) == PathScore(ranked[i], frame[w].traits)
            IN  /\ Len(ranked) = Len(career_library)
                /\ \A k \in 1..Len(career_library) :
                       Cardinality({i \in 1..Len(ranked) : ranked[i] = career_library[k]}) = 1
                /\ \A i \in 1..Len(ranked) : \A j \in (i + 1)..Len(ranked) :
                       /\ ~FLess(score(i), score(j))
                       /\ score(i) = score(j) =>
                              LibraryPosition(career_library, ranked[i])
                                  < LibraryPosition(career_library, ranked[j])

\* C4 witness: a ranking in which two paths tie on a non-zero match score and
\* a lower-scoring path of the library precedes neither.
C4_Witness ==
    \E w \in Workers :
        /\ frame[w].pc = "recommend"
        /\ \E i \in 1..4 :
               /\ PathScore(frame[w].ranked_paths[i], frame[w].traits)
                      = PathScore(frame[w].ranked_paths[i + 1], frame[w].traits)
               /\ PathScore(frame[w].ranked_paths[i], frame[w].traits) # FZero
        /\ frame[w].ranked_paths[1] # career_library[1]

AllTraits(qs) ==
    UNION {UNION {{qs[i].options[k].weight[j][1] : j \in 1..Len(qs[i].options[k].weight)}
                  : k \in 1..Len(qs[i].options)} : i \in 1..Len(qs)}

WeightOf(option, trait) ==
    IF \E j \in 1..Len(option.weight) : option.weight[j][1] = trait
    THEN option.weight[CHOOSE j \in 1..Len(option.weight) : option.weight[j][1] = trait][2]
    ELSE 0

\* The float sum, over the questions in the order `visit`, of the weights the
\* selected options give to `trait`.
TraitSum(visit, responses, trait) ==
    LET partial[j \in 0..Len(visit)] ==
            IF j = 0 THEN FZero
            ELSE FAdd(partial[j - 1],
                      FloatOfTenths(WeightOf(SelectedOption(visit[j], responses), trait)))
    IN  partial[Len(visit)]

TouchedTraits(qs, responses) ==
    {trait \in AllTraits(qs) :
        \E i \in 1..Len(qs) : WeightOf(SelectedOption(qs[i], responses), trait) # 0}

Keys(scores) == {scores[i][1] : i \in 1..Len(scores)}

Reordered(qs) == {[i \in 1..Len(qs) |-> qs[p[i]]] : p \in Permutations(1..Len(qs))}

\* 2^-50
RoundingSlack == Pow2(ScaleLimbs * LimbBits - 50)
Within(a, b, slack) == BigCmp(a, BigAdd(b, slack)) <= 0 /\ BigCmp(b, BigAdd(a, slack)) <= 0

ProfileIsSumOfSelected(w) ==
    /\ Keys(frame[w].traits) = TouchedTraits(questions, frame[w].responses)
    /\ Len(frame[w].traits) = Cardinality(Keys(frame[w].traits))
    /\ \A trait \in Keys(frame[w].traits) :
           TraitValue(frame[w].traits, trait) = TraitSum(questions, frame[w].responses, trait)

\* C5 as stated: the profile is the per-trait sum over the selected options,
\* its keys are the touched traits, and every visiting order of the questions
\* gives each trait the same score.
C5_OrderIndependentExactly ==
    \A w \in Workers :
        frame[w].pc = "rank" =>
            /\ ProfileIsSumOfSelected(w)
            /\ \A visit \in Reordered(questions) :
                   LET other == AggregateFrom(visit, frame[w].responses, 1, <<>>).scores
                   IN  \A trait \in Keys(frame[w].traits) :
                           TraitValue(other, trait) = TraitValue(frame[w].traits, trait)

\* C5 amended: the profile maps each touched trait, and no other, to the
\* float sum in catalog order of the weights the selected options give it;
\* any other visiting order yields the same keys and, per trait, a score
\* that differs by at most 2^-50 and reads the same to one decimal place.
C5_OrderIndependentUpToRounding ==
    \A w \in Workers :
        frame[w].pc = "rank" =>
            /\ ProfileIsSumOfSelected(w)
            /\ \A visit \in Reordered(questions) :
                   LET other == AggregateFrom(visit, frame[w].responses, 1, <<>>).scores
                   IN  /\ Keys(other) = Keys(frame[w].traits)
                       /\ \A trait \in Keys(frame[w].traits) :
                              /\ Within(TraitValue(other, trait),
                                        TraitValue(frame[w].traits, trait), RoundingSlack)
                              /\ FormatTenths(TraitValue(other, trait))
                                     = FormatTenths(TraitValue(frame[w].traits, trait))

\* C5 witness: a profile in which one trait collected weights from three
\* questions and another trait of the catalog is absent.
C5_Witness ==
    \E w \in Workers :
        /\ frame[w].pc = "rank"
        /\ questions = ReferenceQuestions
        /\ \E trait \in Keys(frame[w].traits) :
               Cardinality({i \in 1..Len(questions) :
                   WeightOf(SelectedOption(questions[i], frame[w].responses), trait) # 0}) >= 3
        /\ Keys(frame[w].traits) # AllTraits(questions)


AllSelectedWeightless(qs, responses) ==
    /\ IsValidMapping(qs, responses)
    /\ \A k \in 1..Len(qs) : SelectedOption(qs[k], responses).weight = <<>>

\* C6: when the validator accepts the mapping and every selected option has
\* an empty weight vector, evaluate does not end in the ValueError that max()
\* raises on an empty sequence: what it raises or answers comes from an
\* explicit guard, and is neither the builtin's nor the validator's error.
C6_EmptyProfileGuarded ==
    \A w \in Workers :
        (/\ frame[w].pc \in {"raised", "responded"}
         /\ AllSelectedWeightless(questions, request[w].responses)) =>
            /\ frame[w].error.raised_by \notin {"max", "Questionnaire.validate"}
            /\ frame[w].pc = "responded" /\ response[w].status = 400 =>
                   response[w].detail # EmptyMaxError.text

EndToEndResponses ==
    [strength |-> "analytical", values |-> "innovation",
     environment |-> "independent", learning |-> "courses"]

GivesEndToEndAnswers(responses) ==
    /\ DOMAIN EndToEndResponses \subseteq DOMAIN responses
    /\ \A qid \in DOMAIN EndToEndResponses : responses[qid] = EndToEndResponses[qid]

\* C7: the recommendations are the first three paths of the ranking, in rank
\* order, each with the path's title, its description as summary and its
\* three lists, and the endpoint answers with exactly these; for the
\* end-to-end answers the analytical and technical scores exceed the social
\* and creative ones (an absent trait counting 0.0) and "Data & AI Explorer"
\* is recommended first.
C7_TopThreeVerbatim ==
    \A w \in Workers :
        /\ (frame[w].pc \in {"headline", "reflect", "respond"} \/ Answered200(w)) =>
              LET ranked == frame[w].ranked_paths
                  recs == frame[w].recommendations
              IN  /\ Len(ranked) = Len(career_library)
                  /\ Len(recs) = 3
                  /\ \A i \in 1..3 :
                         /\ recs[i].title = ranked[i].title
                         /\ recs[i].summary = ranked[i].description
                         /\ recs[i].strengths_alignment = ranked[i].strengths_alignment
                         /\ recs[i].starter_projects = ranked[i].starter_projects
                         /\ recs[i].learning_resources = ranked[i].learning_resources
                         /\ DOMAIN recs[i] = {"title", "summary", "strengths_alignment",
                                              "starter_projects", "learning_resources"}
                  /\ Answered200(w) => response[w].recommendations = recs
        /\ (/\ questions = ReferenceQuestions
            /\ GivesEndToEndAnswers(request[w].responses)
            /\ frame[w].pc # "idle") =>
              /\ frame[w].pc \notin {"raised", "validate_missing", "validate_options", "aggregate"} =>
                    \A high \in {"analytical", "technical"} : \A low \in {"social", "creative"} :
                        FLess(TraitValue(frame[w].traits, low), TraitValue(frame[w].traits, high))
              /\ frame[w].pc = "responded" =>
                    /\ response[w].status = 200
                    /\ response[w].recommendations[1].title = "Data & AI Explorer"

\* C7 witness: the end-to-end request was answered, "Data & AI Explorer" first.
C7_Witness ==
    \E w \in Workers :
        /\ Answered200(w)
        /\ questions = ReferenceQuestions
        /\ GivesEndToEndAnswers(request[w].responses)
        /\ Len(response[w].recommendations) = 3
        /\ response[w].recommendations[1].title = "Data & AI Explorer"
        /\ response[w].recommendations[1].summary = career_library[1].description


\* What one request yields when it is served alone over the initial catalogs.
ServedAlone(qs, req) ==
    LET missing == MissingResponses(qs, req.responses)
        invalid == CheckOptionsFrom(qs, req.responses, 1)
        aggregated == aggregate_traits(qs, req.responses)
        recs == create_recommendations(rank_paths(ReferenceCareerLibrary, aggregated.scores))
        composed == compose_headline(req.learner_name, aggregated.scores, recs)
    IN  IF missing # <<>> THEN ClientError(MissingError(missing))
        ELSE IF invalid # NoError THEN ClientError(invalid)
        ELSE IF aggregated.error # NoError THEN ClientError(aggregated.error)
        ELSE IF composed.error # NoError THEN ClientError(composed.error)
        ELSE EvaluationResponse(
                 [learner_name |-> req.learner_name, headline |-> composed.headline,
                  traits |-> aggregated.scores, recommendations |-> recs,
                  reflection_questions |-> reflection_prompts(recs)])

\* C8: however the steps of several requests interleave, no step changes the
\* questionnaire or the career library, every answer equals the answer the
\* same request gets when served alone, and two requests with the same name
\* and responses get identical answers.
C8_ParallelRequestsIsolated ==
    /\ [][questions' = questions /\ career_library' = career_library]_vars
    /\ [](\A w \in Workers :
             frame[w].pc = "responded" => response[w] = ServedAlone(questions, request[w]))
    /\ [](\A v \in Workers : \A w \in Workers :
             (frame[v].pc = "responded" /\ frame[w].pc = "responded" /\ request[v] = request[w])
                 => response[v] = response[w])

\* C8 witness: one worker has answered a valid request while another, given
\* the same request, has ranked the paths but not yet answered.
C8_Witness ==
    \E v \in Workers : \E w \in Workers :
        /\ v # w
        /\ Answered200(v)
        /\ request[w] = request[v]
        /\ frame[w].pc = "recommend"
        /\ frame[w].ranked_paths[1].title = response[v].recommendations[1].title


\* The runs of lines between the blank lines of a text.
RECURSIVE SplitAtBlankLines(_, _, _)
SplitAtBlankLines(lines, i, current) ==
    IF i > Len(lines) THEN <<current>>
    ELSE IF IsBlank(lines[i]) THEN <<current>> \o SplitAtBlankLines(lines, i + 1, <<>>)
    ELSE SplitAtBlankLines(lines, i + 1, Append(current, lines[i]))

Texts(section) == [i \in 1..Len(section) |-> section[i].text]
BulletTexts(items) == [i \in 1..Len(items) |-> <<"* ", items[i]>>]

\* What C9 says of worker w's answer.
ReportHasSections(w) ==
            LET recs == response[w].recommendations
                n == Len(recs)
                prompts == response[w].reflection_questions
                sections == SplitAtBlankLines(response[w].narrative_report, 1, <<>>)
            IN  /\ n <= 3
                /\ Len(sections) = n + 3
                /\ LET name == frame[w].learner_name
                       headline == response[w].headline
                       greeting == sections[1]
                   IN  /\ Len(greeting) = Len(name) + 1 + Len(headline)
                       /\ SubSeq(greeting, 1, Len(name)) = Splice(<<"Hey ">>, name, <<",">>)
                       /\ greeting[Len(name) + 1].text =
                              <<"Here's a quick look at how your strengths and motivations can shape your next steps.">>
                       /\ SubSeq(greeting, Len(name) + 2, Len(greeting)) = headline
                /\ Len(sections[2]) = 1
                /\ sections[2][1].text[1] = "Top strengths: "
                /\ \A i \in 1..n :
                       Texts(sections[2 + i]) =
                           << <<"Option ", Digit(i), ": ", recs[i].title>>, <<"Why it fits:">> >>
                           \o BulletTexts(recs[i].strengths_alignment)
                           \o << <<"Try this next:">> >>
                           \o BulletTexts(recs[i].starter_projects)
                           \o << <<"Keep exploring with:">> >>
                           \o BulletTexts(recs[i].learning_resources)
                /\ Cardinality({k \in 1..Len(response[w].narrative_report) :
                                   /\ ~IsBlank(response[w].narrative_report[k])
                                   /\ response[w].narrative_report[k].text[1] = "Option "}) = n
                /\ Texts(sections[n + 3]) =
                       << <<"Reflection prompts:">> >>
                       \o [k \in 1..Len(prompts) |-> <<"- ">> \o prompts[k]]
                /\ Len(prompts) >= 3

\* C9: the narrative report of an evaluation consists of 3 + n sections
\* separated by single blank lines, n the number of recommendations (at most
\* 3): the greeting with the learner's name and the headline verbatim, one
\* line of top strengths, "Option 1" .. "Option n" in recommendation order,
\* each with its title and its three lists under their labels, and the
\* reflection prompts, one bullet per reflection question.
C9_ReportSections == \A w \in Workers : Answered200(w) => ReportHasSections(w)

\* C9 for learner names of one line: the same sections, name and headline
\* verbatim.
C9_ReportSectionsOneLineName ==
    \A w \in Workers :
        (Answered200(w) /\ Len(frame[w].learner_name) = 1) => ReportHasSections(w)

\* C9 witness: a request was answered with a report of three options.
C9_Witness ==
    \E w \in Workers :
        /\ Answered200(w)
        /\ request[w] # NoRequest
        /\ Len(response[w].recommendations) = 3
        /\ \E k \in 1..Len(response[w].narrative_report) :
               response[w].narrative_report[k].text =
                   <<"Option ", "3", ": ", response[w].recommendations[3].title>>

\* C9, fewer recommendations: the renderer was handed a single recommendation.
C9_WitnessShortList ==
    \E w \in Workers :
        /\ Answered200(w)
        /\ Len(response[w].recommendations) = 1
        /\ Len(SplitAtBlankLines(response[w].narrative_report, 1, <<>>)) = 4

\* The title a headline names: the last token but one of its last line.
HeadlineTitle(headline) ==
    LET last == headline[Len(headline)].text IN last[Len(last) - 1]

\* C10: the reflection questions are the three fixed prompts, in their order,
\* followed by one prompt naming the first recommendation's title exactly
\* when there is a recommendation; a valid request against the reference
\* catalogs gets four prompts, the fourth naming the title the headline names.
C10_ReflectionPrompts ==
    \A w \in Workers :
        (frame[w].pc = "respond" \/ Answered200(w)) =>
            LET prompts == frame[w].reflection_questions
                recs == frame[w].recommendations
            IN  /\ Len(prompts) = IF recs = <<>> THEN 3 ELSE 4
                /\ prompts[1] = <<"What parts of the recommended roles excite you the most and why?">>
                /\ prompts[2] = <<"How do these paths align with the impact you want to have on others?">>
                /\ prompts[3] = <<"What is one experiment you could run this month to learn more?">>
                /\ recs # <<>> =>
                       prompts[4] = <<"Who could you reach out to for an informational chat about ",
                                      recs[1].title, "?">>
                /\ Answered200(w) => response[w].reflection_questions = prompts
                /\ (request[w] # NoRequest /\ questions = ReferenceQuestions) =>
                       /\ IsValidMapping(questions, request[w].responses)
                       /\ Len(prompts) = 4
                       /\ prompts[4][2] = HeadlineTitle(frame[w].headline)
                       /\ prompts[4][2] = frame[w].ranked_paths[1].title

\* C10 witness: a valid request against the reference catalogs was answered
\* with four prompts, the fourth naming the headline's title.
C10_Witness ==
    \E w \in Workers :
        /\ Answered200(w)
        /\ request[w] # NoRequest
        /\ questions = ReferenceQuestions
        /\ Len(response[w].reflection_questions) = 4
        /\ response[w].reflection_questions[4][2] = HeadlineTitle(response[w].headline)

\* C10, no recommendation: _reflection_prompts was handed an empty list.
C10_WitnessEmptyList ==
    \E w \in Workers :
        /\ frame[w].pc = "respond"
        /\ frame[w].recommendations = <<>>
        /\ Len(frame[w].reflection_questions) = 3

\* The trait a headline names: the token after ", your top trait is " on its
\* last line.
HeadlineTrait(headline) ==
    LET last == headline[Len(headline)].text
    IN  last[(CHOOSE p \in 1..Len(last) : last[p] = ", your top trait is ") + 1]

\* The traits a "Top strengths: " line lists, in the order it lists them.
BlockTraits(text) ==
    LET starts == {k \in 1..Len(text) : text[k] \in {"Top strengths: ", ", "}}
    IN  [i \in 1..Cardinality(starts) |->
            text[(CHOOSE k \in starts : Cardinality({j \in starts : j <= k}) = i) + 1]]

\* Where a trait is first met when the questions are visited in catalog order
\* and the selected option's weight entries in declaration order: the
\* question's position and the entry's position.
FirstEncounter(qs, responses, trait) ==
    LET has(i) == \E j \in 1..Len(SelectedOption(qs[i], responses).weight) :
                      SelectedOption(qs[i], responses).weight[j][1] = trait
        i == CHOOSE k \in 1..Len(qs) : has(k) /\ \A l \in 1..(k - 1) : ~has(l)
        weight == SelectedOption(qs[i], responses).weight
    IN  <<i, CHOOSE j \in 1..Len(weight) : weight[j][1] = trait>>

EncounteredBefore(qs, responses, a, b) ==
    LET pa == FirstEncounter(qs, responses, a)
        pb == FirstEncounter(qs, responses, b)
    IN  pa[1] < pb[1] \/ (pa[1] = pb[1] /\ pa[2] < pb[2])

\* The trait of the highest score, the first encountered among those that tie.
DominantTrait(qs, responses, scores) ==
    CHOOSE d \in Keys(scores) :
        \A t \in Keys(scores) \ {d} :
            \/ FLess(TraitValue(scores, t), TraitValue(scores, d))
            \/ /\ TraitValue(scores, t) = TraitValue(scores, d)
               /\ EncounteredBefore(qs, responses, d, t)

TraitBlockOf(w) ==
    BlockTraits(SplitAtBlankLines(response[w].narrative_report, 1, <<>>)[2][1].text)

\* C11: for a valid response set the trait the headline names is the first
\* trait of the report's "Top strengths" line, and it is the trait of the
\* highest score, the first encountered (questions in catalog order, weight
\* entries in declaration order) when several tie; the line lists at most
\* three distinct traits of the profile, in non-increasing score order, and
\* no other trait scores more than a listed one.
C11_HeadlineAgreesWithTraitBlock ==
    \A w \in Workers :
        (Answered200(w) /\ request[w] # NoRequest) =>
            LET scores == response[w].trait_scores
                block == TraitBlockOf(w)
            IN  /\ Len(block) >= 1
                /\ Len(block) <= 3
                /\ HeadlineTrait(response[w].headline) = block[1]
                /\ block[1] = DominantTrait(questions, request[w].responses, scores)
                /\ \A i \in 1..Len(block) : block[i] \in Keys(scores)
                /\ \A i, j \in 1..Len(block) : i # j => block[i] # block[j]
                /\ \A i \in 1..(Len(block) - 1) :
                       ~FLess(TraitValue(scores, block[i]), TraitValue(scores, block[i + 1]))
                /\ \A t \in Keys(scores) \ {block[i] : i \in 1..Len(block)} :
                       ~FLess(TraitValue(scores, block[Len(block)]), TraitValue(scores, t))

\* C11 witness: a valid request against the reference catalogs was answered
\* whose highest score is shared by two traits, neither the first of the
\* profile.
C11_Witness ==
    \E w \in Workers :
        /\ Answered200(w)
        /\ request[w] # NoRequest
        /\ questions = ReferenceQuestions
        /\ LET scores == response[w].trait_scores
               block == TraitBlockOf(w)
           IN  /\ Len(block) = 3
               /\ HeadlineTrait(response[w].headline) = block[1]
               /\ scores[1][1] # block[1]
               /\ \E t \in Keys(scores) \ {block[1]} :
                      /\ TraitValue(scores, t) = TraitValue(scores, block[1])
                      /\ EncounteredBefore(questions, request[w].responses, block[1], t)

\* The catalog's question ids mapped as `responses` maps them; every other
\* key dropped.
OnQuestionsOnly(qs, responses) ==
    [qid \in QuestionIdSet(qs) \cap DOMAIN responses |-> responses[qid]]

\* C12: with the reference catalogs, a request whose mapping gives every
\* catalog question one of its own options (whatever other keys it carries)
\* never raises: no "No option with id" during aggregation, a non-empty trait
\* profile for the headline, scores that are those of the mapping without
\* its other keys, and an answer of exactly three recommendations of
\* pairwise distinct titles.
C12_TotalOnValidatedInput ==
    \A w \in Workers :
        (/\ questions = ReferenceQuestions
         /\ request[w] # NoRequest
         /\ IsValidMapping(questions, request[w].responses)) =>
            LET f == frame[w]
                asked == OnQuestionsOnly(questions, request[w].responses)
                aggregated == f.pc \in {"rank", "recommend", "headline", "reflect",
                                        "respond", "responded"}
                recommended == f.pc \in {"headline", "reflect", "respond", "responded"}
            IN  /\ f.pc # "raised"
                /\ f.error = NoError
                /\ response[w].status # 400
                /\ f.pc = "responded" => response[w].status = 200
                /\ aggregated =>
                       /\ f.traits # <<>>
                       /\ Keys(f.traits) = TouchedTraits(questions, asked)
                       /\ \A trait \in AllTraits(questions) :
                              TraitValue(f.traits, trait) = TraitSum(questions, asked, trait)
                /\ recommended =>
                       /\ Len(f.recommendations) = 3
                       /\ \A i, j \in 1..3 :
                              i # j => f.recommendations[i].title # f.recommendations[j].title
                /\ f.pc \in {"reflect", "respond", "responded"} => f.headline # <<>>
                /\ Answered200(w) =>
                       /\ response[w].recommendations = f.recommendations
                       /\ response[w].trait_scores = f.traits

\* C12 witness: a mapping with a key that is no question id, every question
\* answered with its last option, was answered with three recommendations.
C12_Witness ==
    \E w \in Workers :
        /\ questions = ReferenceQuestions
        /\ Answered200(w)
        /\ "hobby" \in DOMAIN request[w].responses
        /\ IsValidMapping(questions, request[w].responses)
        /\ \A i \in 1..Len(questions) :
               request[w].responses[questions[i].id]
                   = questions[i].options[Len(questions[i].options)].id
        /\ Len(response[w].recommendations) = 3
        /\ response[w].trait_scores # <<>>

=============================================================================
